---- MODULE Spec2Model ----
(***************************************************************************)
(* A state-machine model of FilteredFlux::_apply                           *)
(* (src/src/flux/FilteredFlux.cc, lines 87-155): one measurement call on   *)
(* one source record, statement by statement.                              *)
(*                                                                         *)
(* Numbers.  Continuous coordinates are integers in units of 1/Sub pixel.  *)
(* A C++ double is a pair <<n, d>> with d >= 0: for d > 0 the rational n/d *)
(* in lowest terms, <<1,0>> and <<-1,0>> are +inf and -inf, <<0,0>> is NaN.*)
(* Arithmetic on finite values is exact (no rounding); division by zero    *)
(* and operations on inf/NaN follow IEEE-754.                              *)
(***************************************************************************)
EXTENDS Integers, Sequences, FiniteSets, TLC

\* ---------------------------------------------------------------- bounds
Half == 2
MaxCoord == 4
MaxOrigin == 1
MaxCell == 1
TrueFlux == 12

\* sub-pixel units per pixel
Sub == 2 * Half

\* ------------------------------------------- inputs borrowed from caller
ImgW == 4
ImgH == 4
PsfW == 2
PsfH == 1
PixelZeroPos == 0

\* ---------------------------------------------------------------- double
Abs(a) == IF a < 0 THEN -a ELSE a

Sign(n) == IF n > 0 THEN 1 ELSE IF n < 0 THEN -1 ELSE 0

RECURSIVE GCD(_, _)
GCD(a, b) == IF b = 0 THEN a ELSE GCD(b, a % b)

Norm(n, d) ==
    IF d = 0 THEN <<Sign(n), 0>>
    ELSE LET g == GCD(Abs(n), d) IN <<n \div g, d \div g>>

NaN == <<0, 0>>
D(n) == <<n, 1>>

IsFinite(a) == a[2] > 0
IsPositive(a) == a[1] > 0

DMul(a, b) == Norm(a[1] * b[1], a[2] * b[2])

DAdd(a, b) ==
    IF a[2] = 0 /\ b[2] = 0
    THEN (IF a = b THEN a ELSE NaN)
    ELSE IF a[2] = 0 THEN a
    ELSE IF b[2] = 0 THEN b
    ELSE LET g == GCD(a[2], b[2])
         IN  Norm(a[1] * (b[2] \div g) + b[1] * (a[2] \div g), (a[2] \div g) * b[2])

\* 1.0 / a
DInv(a) == IF a[1] < 0 THEN <<-a[2], -a[1]>> ELSE <<a[2], a[1]>>

\* ------------------------------------------------------------ kernel images
Cells(w, h) == (0 .. w - 1) \X (0 .. h - 1)

\* cell number k of a w-wide image, rows first (the order of the loops)
CellAt(k, w) == <<k % w, k \div w>>

RECURSIVE SumCells(_, _, _)
SumCells(img, w, k) ==
    IF k = 0 THEN D(0) ELSE DAdd(SumCells(img, w, k - 1), img[CellAt(k - 1, w)])

\* Kernel::computeImage(image, doNormalize = true)
computeImage(raw, w, h) ==
    LET multFactor == DInv(SumCells(raw, w, w * h))
    IN  [c \in Cells(w, h) |-> DMul(raw[c], multFactor)]

EmptyImage == [c \in {} |-> NaN]

\* ------------------------------------------------- image plane geometry
\* MaskedImage::positionToIndex(pos, xOrY): index of the nearest pixel and
\* the residual, for an axis whose origin offset is o
positionToIndex(pos, o) ==
    LET fullIndex == pos - Sub * PixelZeroPos - Sub * o
        roundedIndex == (fullIndex + Half) \div Sub
    IN  <<roundedIndex, fullIndex - Sub * roundedIndex>>

\* MaskedImage::indexToPosition(ind, xOrY)
indexToPosition(ind, o) == Sub * (ind + PixelZeroPos + o)

InPlane(p) == p \in Cells(ImgW, ImgH)

\* ------------------------------------------------------- warping kernels
KnownKernelNames == {"bilinear", "lanczos2"}
KernelNames == KnownKernelNames \cup {"bogus"}

KernelOrder(name) == IF name = "bilinear" THEN 1 ELSE 2

\* afwMath::makeWarpingKernel(name) for a recognised name: a separable
\* kernel of even dimension with the default centre (width - 1) / 2
makeWarpingKernel(name) ==
    LET w == 2 * KernelOrder(name)
    IN  [name |-> name, width |-> w, height |-> w,
         ctrX |-> (w - 1) \div 2, ctrY |-> (w - 1) \div 2]

NoKernel == [name |-> "", width |-> 0, height |-> 0, ctrX |-> 0, ctrY |-> 0]

\* BilinearFunction1: 1 - |t| on (-1, 1), t in units of 1/Sub
BilinearFunction1(t) ==
    IF Abs(t) < Sub THEN Norm(Sub - Abs(t), Sub) ELSE D(0)

\* The 4-tap kernel function.  The sinc products of a Lanczos kernel are
\* irrational; this piecewise-linear function has the same support (-2, 2),
\* the same value 1 at 0, the same zeros at +-1 and +-2 and a negative
\* side lobe (-1/4 at +-3/2), so its taps do not sum to 1 by themselves.
LanczosFunction1(t) ==
    LET a == Abs(t)
    IN  IF a <= Sub THEN Norm(Sub - a, Sub)
        ELSE IF a < 2 * Sub THEN Norm(Abs(2 * a - 3 * Sub) - Sub, 4 * Sub)
        ELSE D(0)

KernelFunction1(name, t) ==
    IF name = "bilinear" THEN BilinearFunction1(t) ELSE LanczosFunction1(t)

\* SeparableKernel image before normalisation: cell (i, j) is
\* f(i - ctrX - dx) * f(j - ctrY - dy)
WarpRaw(k, dx, dy) ==
    [c \in Cells(k.width, k.height) |->
        DMul(KernelFunction1(k.name, Sub * (c[1] - k.ctrX) - dx),
             KernelFunction1(k.name, Sub * (c[2] - k.ctrY) - dy))]

\* ------------------------------------------------------------ PSF kernel
PsfKernels == [Cells(PsfW, PsfH) -> (-1) .. MaxCell]

PsfRaw(p) == [c \in Cells(PsfW, PsfH) |-> D(p[c])]

PsfSum(p) == SumCells(PsfRaw(p), PsfW, PsfW * PsfH)

PsfCtr == <<(PsfW - 1) \div 2, (PsfH - 1) \div 2>>

\* ----------------------------------------------------------- image planes
RampImage ==
    [p \in Cells(ImgW, ImgH) |->
        [image |-> D(1 + p[1] + ImgW * p[2]), variance |-> D(1 + p[2] + ImgH * p[1])]]

\* noise-free image of a source of flux TrueFlux whose profile is the
\* normalised PSF kernel image centred on the pixel nearest to c
SyntheticImage(c, o, p) ==
    LET n == <<positionToIndex(c[1], o[1])[1], positionToIndex(c[2], o[2])[1]>>
        img == computeImage(PsfRaw(p), PsfW, PsfH)
    IN  [q \in Cells(ImgW, ImgH) |->
            LET k == <<q[1] - n[1] + PsfCtr[1], q[2] - n[2] + PsfCtr[2]>>
            IN  [image |-> IF k \in Cells(PsfW, PsfH)
                           THEN DMul(D(TrueFlux), img[k]) ELSE D(0),
                 variance |-> D(0)]]

\* the images a call may be given: the ramp, and the synthetic source where
\* the PSF kernel can be normalised
ImageKinds(p) == {"ramp"} \cup (IF PsfSum(p) # D(0) THEN {"synthetic"} ELSE {})

\* what an out-of-bounds read may return
Garbage == {[image |-> D(0), variance |-> D(0)], [image |-> D(7), variance |-> D(3)]}

\* ----------------------------------------------------- point convolution
\* convolveAtAPoint: sum over the first k cells of a w-wide kernel image
\* placed with its cell (0,0) on loc, of pixel * weight (variance: weight^2)
RECURSIVE convolveAtAPoint(_, _, _, _, _)
convolveAtAPoint(pix, loc, kimg, w, k) ==
    IF k = 0 THEN [image |-> D(0), variance |-> D(0)]
    ELSE LET c == CellAt(k - 1, w)
             p == pix[<<loc[1] + c[1], loc[2] + c[2]>>]
             acc == convolveAtAPoint(pix, loc, kimg, w, k - 1)
         IN  [image |-> DAdd(acc.image, DMul(p.image, kimg[c])),
              variance |-> DAdd(acc.variance, DMul(p.variance, DMul(kimg[c], kimg[c])))]

Footprint(loc, w, h) == {<<loc[1] + c[1], loc[2] + c[2]>> : c \in Cells(w, h)}

\* ------------------------------------------------------------------ state
VARIABLES
    pc,                  \* position in _apply
    center,              \* argument: the source's continuous centre
    xy0,                 \* mimage.getXY0()
    warpingKernelName,   \* FilteredFluxControl::warpingKernelName
    psf,                 \* cells of the kernel the PSF returns
    imageKind,           \* which masked image the exposure holds
    flag, meas, err,     \* the three slots of the source record
    measWritten, errWritten,    \* whether this call has set meas / err
    xCtrPixIndFrac, yCtrPixIndFrac,
    ctrPixPos,
    psfSqSum, weight,
    warpingKernel, warpingKernelImage,
    mimageCtrPix,
    flux, var,
    thrown,              \* the exception leaving the call, or "none"
    pixelsRead           \* array cells the call has read so far

inputs == <<center, xy0, warpingKernelName, psf, imageKind>>
record == <<flag, meas, err, measWritten, errWritten>>
mapped == <<xCtrPixIndFrac, yCtrPixIndFrac>>
weighted == <<ctrPixPos, psfSqSum, weight>>
warp == <<warpingKernel, warpingKernelImage>>
result == <<mimageCtrPix, flux, var>>
vars == <<pc, inputs, record, mapped, weighted, warp, result, thrown, pixelsRead>>

\* line 96: the exposure's masked image, indexed from (0,0) of its array
mimage ==
    IF imageKind = "ramp" THEN RampImage ELSE SyntheticImage(center, xy0, psf)

NoPixel == [image |-> NaN, variance |-> NaN]

Init ==
    /\ pc = "start"
    /\ center \in (0 .. MaxCoord) \X (0 .. MaxCoord)
    /\ xy0 \in (0 .. MaxOrigin) \X (0 .. MaxOrigin)
    /\ warpingKernelName \in KernelNames
    /\ psf \in PsfKernels
    /\ imageKind \in ImageKinds(psf)
    /\ flag \in BOOLEAN
    /\ meas = NaN
    /\ err = NaN
    /\ measWritten = FALSE
    /\ errWritten = FALSE
    /\ xCtrPixIndFrac = <<0, 0>>
    /\ yCtrPixIndFrac = <<0, 0>>
    /\ ctrPixPos = <<0, 0>>
    /\ psfSqSum = D(0)
    /\ weight = D(0)
    /\ warpingKernel = NoKernel
    /\ warpingKernelImage = EmptyImage
    /\ mimageCtrPix = NoPixel
    /\ flux = D(0)
    /\ var = D(0)
    /\ thrown = "none"
    /\ pixelsRead = {}

\* ---------------------------------------------------------------- actions
\* the first statement missing
SetFailedFlag_missing ==
    /\ pc = "start"
    /\ pc' = "flagged"
    /\ UNCHANGED <<inputs, record, mapped, weighted, warp, result, thrown, pixelsRead>>

\* line 92
SetFailedFlag ==
    /\ pc = "start"
    /\ flag' = TRUE
    /\ pc' = "flagged"
    /\ UNCHANGED <<inputs, meas, err, measWritten, errWritten, mapped, weighted,
                   warp, result, thrown, pixelsRead>>

\* the two axes exchanged
MapToPixel_swapped ==
    /\ pc = "flagged"
    /\ xCtrPixIndFrac' = positionToIndex(center[2], xy0[2])
    /\ yCtrPixIndFrac' = positionToIndex(center[1], xy0[1])
    /\ pc' = "mapped"
    /\ UNCHANGED <<inputs, record, weighted, warp, result, thrown, pixelsRead>>

\* lines 100-101
MapToPixel ==
    /\ pc = "flagged"
    /\ xCtrPixIndFrac' = positionToIndex(center[1], xy0[1])
    /\ yCtrPixIndFrac' = positionToIndex(center[2], xy0[2])
    /\ pc' = "mapped"
    /\ UNCHANGED <<inputs, record, weighted, warp, result, thrown, pixelsRead>>

\* "=" written for "+=": only the last cell's square is kept
SumOfSquares_assign(img, w, h) ==
    DMul(img[CellAt(w * h - 1, w)], img[CellAt(w * h - 1, w)])

\* lines 111-117
SumOfSquares(img, w, h) ==
    SumCells([c \in Cells(w, h) |-> DMul(img[c], img[c])], w, w * h)

\* lines 104-118
ComputeWeight ==
    /\ pc = "mapped"
    /\ ctrPixPos' = <<indexToPosition(xCtrPixIndFrac[1], xy0[1]),
                      indexToPosition(yCtrPixIndFrac[1], xy0[2])>>
    /\ LET psfImage == computeImage(PsfRaw(psf), PsfW, PsfH)
       IN  /\ psfSqSum' = SumOfSquares(psfImage, PsfW, PsfH)
           /\ weight' = DInv(SumOfSquares(psfImage, PsfW, PsfH))
    /\ pc' = "weighted"
    /\ UNCHANGED <<inputs, record, mapped, warp, result, thrown, pixelsRead>>

\* the exception swallowed and a bilinear kernel used instead
MakeWarpingKernel_fallback ==
    /\ pc = "weighted"
    /\ warpingKernel' = IF warpingKernelName \in KnownKernelNames
                        THEN makeWarpingKernel(warpingKernelName)
                        ELSE makeWarpingKernel("bilinear")
    /\ pc' = "made"
    /\ UNCHANGED <<inputs, record, mapped, weighted, warpingKernelImage, result,
                   thrown, pixelsRead>>

\* lines 125-127; an unrecognised name throws and nothing catches it
MakeWarpingKernel ==
    /\ pc = "weighted"
    /\ IF warpingKernelName \in KnownKernelNames
       THEN /\ warpingKernel' = makeWarpingKernel(warpingKernelName)
            /\ pc' = "made"
            /\ UNCHANGED thrown
       ELSE /\ thrown' = "ConfigurationError"
            /\ pc' = "error"
            /\ UNCHANGED warpingKernel
    /\ UNCHANGED <<inputs, record, mapped, weighted, warpingKernelImage, result,
                   pixelsRead>>

\* "<=" written for "<"
ShiftCtr_le ==
    /\ pc = "made"
    /\ warpingKernel' =
         [warpingKernel EXCEPT
            !.ctrX = IF xCtrPixIndFrac[2] <= 0 THEN @ + 1 ELSE @,
            !.ctrY = IF yCtrPixIndFrac[2] <= 0 THEN @ + 1 ELSE @]
    /\ pc' = "shifted"
    /\ UNCHANGED <<inputs, record, mapped, weighted, warpingKernelImage, result,
                   thrown, pixelsRead>>

\* lines 128-136
ShiftCtr ==
    /\ pc = "made"
    /\ warpingKernel' =
         [warpingKernel EXCEPT
            !.ctrX = IF xCtrPixIndFrac[2] < 0 THEN @ + 1 ELSE @,
            !.ctrY = IF yCtrPixIndFrac[2] < 0 THEN @ + 1 ELSE @]
    /\ pc' = "shifted"
    /\ UNCHANGED <<inputs, record, mapped, weighted, warpingKernelImage, result,
                   thrown, pixelsRead>>

\* lines 137-139
ComputeWarpImage ==
    /\ pc = "shifted"
    /\ warpingKernelImage' =
         computeImage(WarpRaw(warpingKernel, xCtrPixIndFrac[2], yCtrPixIndFrac[2]),
                      warpingKernel.width, warpingKernel.height)
    /\ pc' = "warped"
    /\ UNCHANGED <<inputs, record, mapped, weighted, warpingKernel, result, thrown,
                   pixelsRead>>

\* line 144
subimMin == <<xy0[1] - warpingKernel.ctrX, xy0[2] - warpingKernel.ctrY>>

ReadCells == Footprint(subimMin, warpingKernel.width, warpingKernel.height)

\* lines 145-147, every cell read lies in the plane
ConvolveInBounds ==
    /\ pc = "warped"
    /\ \A p \in ReadCells : InPlane(p)
    /\ mimageCtrPix' = convolveAtAPoint(mimage, subimMin, warpingKernelImage,
                          warpingKernel.width, warpingKernel.width * warpingKernel.height)
    /\ pixelsRead' = ReadCells
    /\ pc' = "convolved"
    /\ UNCHANGED <<inputs, record, mapped, weighted, warp, flux, var, thrown>>

\* lines 145-147, some cell lies outside the plane: the locator is not
\* checked, the read returns whatever the memory holds
ConvolveOutOfBounds ==
    /\ pc = "warped"
    /\ ~(\A p \in ReadCells : InPlane(p))
    /\ \E g \in Garbage :
         mimageCtrPix' =
           convolveAtAPoint([p \in ReadCells |-> IF InPlane(p) THEN mimage[p] ELSE g],
                            subimMin, warpingKernelImage,
                            warpingKernel.width, warpingKernel.width * warpingKernel.height)
    /\ pixelsRead' = ReadCells
    /\ pc' = "convolved"
    /\ UNCHANGED <<inputs, record, mapped, weighted, warp, flux, var, thrown>>

\* lines 145-147, some cell lies outside the plane and the read faults
ConvolveFault ==
    /\ pc = "warped"
    /\ ~(\A p \in ReadCells : InPlane(p))
    /\ pixelsRead' = ReadCells
    /\ pc' = "crashed"
    /\ UNCHANGED <<inputs, record, mapped, weighted, warp, result, thrown>>

\* lines 149-150
ScaleFlux ==
    /\ pc = "convolved"
    /\ flux' = DMul(mimageCtrPix.image, weight)
    /\ var' = DMul(DMul(mimageCtrPix.variance, weight), weight)
    /\ pc' = "scaled"
    /\ UNCHANGED <<inputs, record, mapped, weighted, warp, mimageCtrPix, thrown,
                   pixelsRead>>

\* the flag cleared together with the first value
SetMeas_clears ==
    /\ pc = "scaled"
    /\ meas' = flux
    /\ measWritten' = TRUE
    /\ flag' = FALSE
    /\ pc' = "measSet"
    /\ UNCHANGED <<inputs, err, errWritten, mapped, weighted, warp, result, thrown,
                   pixelsRead>>

\* line 152
SetMeas ==
    /\ pc = "scaled"
    /\ meas' = flux
    /\ measWritten' = TRUE
    /\ pc' = "measSet"
    /\ UNCHANGED <<inputs, flag, err, errWritten, mapped, weighted, warp, result,
                   thrown, pixelsRead>>

\* line 153
SetErr ==
    /\ pc = "measSet"
    /\ err' = var
    /\ errWritten' = TRUE
    /\ pc' = "errSet"
    /\ UNCHANGED <<inputs, flag, meas, measWritten, mapped, weighted, warp, result,
                   thrown, pixelsRead>>

\* line 154
ClearFlag ==
    /\ pc = "errSet"
    /\ flag' = FALSE
    /\ pc' = "done"
    /\ UNCHANGED <<inputs, meas, err, measWritten, errWritten, mapped, weighted,
                   warp, result, thrown, pixelsRead>>

Next ==
    \/ SetFailedFlag
    \/ MapToPixel
    \/ ComputeWeight
    \/ MakeWarpingKernel
    \/ ShiftCtr
    \/ ComputeWarpImage
    \/ ConvolveInBounds
    \/ ConvolveOutOfBounds
    \/ ConvolveFault
    \/ ScaleFlux
    \/ SetMeas
    \/ SetErr
    \/ ClearFlag

Spec == Init /\ [][Next]_vars

\* ------------------------------------------------------------ properties
BeforeWeight == {"start", "flagged", "mapped"}
AfterShift == {"shifted", "warped", "convolved", "crashed", "scaled", "measSet",
               "errSet", "done"}
AfterWarpImage == AfterShift \ {"shifted"}
AfterConvolve == AfterWarpImage \ {"warped"}

dKerX == xCtrPixIndFrac[2]
dKerY == yCtrPixIndFrac[2]

\* the pixel nearest to the source centre, as an array index
ctrPix == <<xCtrPixIndFrac[1], yCtrPixIndFrac[1]>>

\* the cells under the warping kernel when its centre cell lies on ctrPix
CtrPixFootprint ==
    Footprint(<<ctrPix[1] - warpingKernel.ctrX, ctrPix[2] - warpingKernel.ctrY>>,
              warpingKernel.width, warpingKernel.height)

NothingComputed ==
    /\ xCtrPixIndFrac = <<0, 0>> /\ yCtrPixIndFrac = <<0, 0>>
    /\ ctrPixPos = <<0, 0>> /\ psfSqSum = D(0) /\ weight = D(0)
    /\ warpingKernel = NoKernel /\ warpingKernelImage = EmptyImage
    /\ mimageCtrPix = NoPixel /\ flux = D(0) /\ var = D(0)
    /\ pixelsRead = {}

\* C1: the failed flag is set before anything else is computed, and a call
\* that ends with an exception leaves the flag set and both value slots
\* unwritten, with the exception on its way to the caller.
C1_FlagSetFirstAndKeptOnError ==
    /\ pc = "flagged" => flag /\ NothingComputed /\ ~measWritten /\ ~errWritten
    /\ pc = "error" =>
         /\ flag
         /\ ~measWritten /\ ~errWritten
         /\ meas = NaN /\ err = NaN
         /\ thrown # "none"

C1_Witness ==
    pc = "error" /\ thrown = "ConfigurationError" /\ flag /\ ~measWritten

\* C2: once the call has started, a cleared failed flag means that both
\* slots hold this call's flux = value * weight and variance * weight^2,
\* and that the call is over: clearing the flag is its last write.
C2_NoPartialSuccess ==
    (pc # "start" /\ ~flag) =>
        /\ pc = "done"
        /\ measWritten /\ errWritten
        /\ meas = DMul(mimageCtrPix.image, weight)
        /\ err = DMul(DMul(mimageCtrPix.variance, weight), weight)

C2_Witness ==
    pc = "done" /\ ~flag /\ measWritten /\ errWritten /\ IsFinite(meas)

C4_NoReadOutsidePlane ==
    /\ \A p \in pixelsRead : InPlane(p)
    /\ (pc \in AfterConvolve /\ ~(\A p \in CtrPixFootprint : InPlane(p))) =>
         /\ pc = "error"
         /\ thrown = "BoundsError"
         /\ flag /\ ~measWritten /\ ~errWritten

\* C5: for a source exactly on a pixel centre whose kernel footprint lies
\* in the plane, the finished call holds flux = (pixel at ctrPix) * weight
\* and variance = (variance at ctrPix) * weight^2.
C5_ExactCentreIdentity ==
    (/\ pc = "done"
     /\ dKerX = 0 /\ dKerY = 0
     /\ \A p \in CtrPixFootprint : InPlane(p)) =>
        /\ meas = DMul(mimage[ctrPix].image, weight)
        /\ err = DMul(DMul(mimage[ctrPix].variance, weight), weight)

\* C6: on the noise-free image TrueFlux * normalised PSF of a source on a
\* pixel centre (the point dx = dy = 0 of the sweep) the finished call
\* returns TrueFlux.
C6_RecoversTrueFlux ==
    (/\ pc = "done"
     /\ imageKind = "synthetic"
     /\ dKerX = 0 /\ dKerY = 0
     /\ \A p \in CtrPixFootprint : InPlane(p)) =>
        meas = D(TrueFlux)

ShiftedKernel ==
    [makeWarpingKernel(warpingKernelName) EXCEPT
        !.ctrX = IF dKerX < 0 THEN @ + 1 ELSE @,
        !.ctrY = IF dKerY < 0 THEN @ + 1 ELSE @]

\* C7: the kernel centre moves by +1 on an axis exactly when that axis's
\* fractional offset is negative, each axis by itself; the move is made
\* before the weight image is computed from (dx, dy), and that image sums
\* to 1.
C7_ParityTieBreak ==
    /\ pc = "made" =>
         warpingKernel = makeWarpingKernel(warpingKernelName)
         /\ warpingKernelImage = EmptyImage
    /\ pc \in AfterShift => warpingKernel = ShiftedKernel
    /\ pc = "shifted" => warpingKernelImage = EmptyImage
    /\ pc \in AfterWarpImage =>
         /\ warpingKernelImage = computeImage(WarpRaw(ShiftedKernel, dKerX, dKerY),
                                              ShiftedKernel.width, ShiftedKernel.height)
         /\ SumCells(warpingKernelImage, warpingKernel.width,
                     warpingKernel.width * warpingKernel.height) = D(1)

C7_Witness ==
    /\ pc = "warped"
    /\ dKerX < 0 /\ dKerY = 0
    /\ warpingKernel.ctrX = makeWarpingKernel(warpingKernelName).ctrX + 1
    /\ warpingKernel.ctrY = makeWarpingKernel(warpingKernelName).ctrY
    /\ warpingKernelName = "lanczos2"

\* index and fraction of one axis are the nearest pixel and the signed
\* distance from its centre to the coordinate, the fraction in [-1/2, 1/2)
NearestWithResidual(indFrac, pos, o) ==
    /\ indFrac[2] = pos - indexToPosition(indFrac[1], o)
    /\ -Half <= indFrac[2] /\ indFrac[2] < Half
    /\ \A i \in (indFrac[1] - 2) .. (indFrac[1] + 2) :
         Abs(pos - indexToPosition(i, o)) >= Abs(indFrac[2])

\* the coordinate lies half-way between two pixel centres
IsTie(pos, o) == (pos - indexToPosition(0, o)) % Sub = Half

C9_UnknownKernelAbortsBeforeImageAccess ==
    warpingKernelName \notin KnownKernelNames =>
        /\ pixelsRead = {}
        /\ ~measWritten /\ ~errWritten
        /\ pc \in BeforeWeight \cup {"weighted", "error"}
        /\ pc # "start" => flag
        /\ pc = "error" => thrown = "ConfigurationError" /\ mimageCtrPix = NoPixel

C9_Witness ==
    /\ pc = "error"
    /\ warpingKernelName \notin KnownKernelNames
    /\ thrown = "ConfigurationError"
    /\ pixelsRead = {}
    /\ flag

HasNonZeroCell == \E c \in Cells(PsfW, PsfH) : psf[c] # 0

====
